---- MODULE Spec2Model ----
(***************************************************************************)
(* Echolet document ingestion: upload intake (rest_api/router_api.py),     *)
(* filename validation (validation/pydentic_model.py) and the processing   *)
(* pipeline (services/upload_processor.py).                                *)
(*                                                                         *)
(* Specifications:                                                         *)
(*   SpecChunk    _chunk_text as a loop, inputs drawn from bounded sets    *)
(*   SpecStore    PGVectorStore.store_embeddings called directly           *)
(*   SpecPipeline one process_file run over a stored file                  *)
(*   Spec         concurrent upload_file handlers and the runs they start  *)
(***************************************************************************)
EXTENDS Integers, Sequences, FiniteSets, TLC

VARIABLES
    ck,        \* _chunk_text: parameters, locals and position of one call
    st,        \* store_embeddings: arguments and outcome of one direct call
    up,        \* upload_file: per handler, its arguments, locals and position
    fs,        \* directory UPLOAD_DIR: filename -> inode (0 = no such file)
    inode,     \* inode -> bytes of the file
    run,       \* process_file: per background run, its locals and position
    vstore,    \* batches handed to vector_store.add_documents, in order
    uuidCtr    \* number of uuid4() identifiers generated so far

vars == <<ck, st, up, fs, inode, run, vstore, uuidCtr>>

----------------------------------------------------------------------------
(* Bounds of the model *)

MaxTextLen == 4      \* longest text given to _chunk_text
MaxChunkSize == 3    \* largest chunk_size given to _chunk_text
MaxOverlap == 3      \* largest overlap given to _chunk_text
MaxChunks == 4       \* iterations of the _chunk_text loop that are explored
MaxBatch == 2        \* longest batch given to store_embeddings directly
MaxStreamLen == 5    \* longest uploaded byte stream

----------------------------------------------------------------------------
(* Python built-ins used by the code *)

Min(a, b) == IF a <= b THEN a ELSE b

Max(a, b) == IF a >= b THEN a ELSE b

\* s[i:j] for 0 <= i, j (Python slice, 0-based, end exclusive, clipped)
Slice(s, i, j) == SubSeq(s, Min(i, Len(s)) + 1, Min(j, Len(s)))

----------------------------------------------------------------------------
(* services/upload_processor.py: _chunk_text *)

\* end = min(start + chunk_size, length)
ChunkEnd(start, chunk_size, length) == Min(start + chunk_size, length)

\* start = max(0, end - overlap)
ChunkNextStart(end, overlap) == Max(0, end - overlap)

ChunkSliceShort(text, start, end) == Slice(text, start, end - 1)

\* text[start:end]; start >= 0 always holds in the loop
ChunkSlice(text, start, end) == Slice(text, start, end)

Chars == {"a", "b"}

RECURSIVE SeqsUpTo(_, _)
SeqsUpTo(S, n) ==
    IF n = 0 THEN {<<>>}
    ELSE LET shorter == SeqsUpTo(S, n - 1)
         IN  shorter \cup {Append(s, x) : s \in {t \in shorter : Len(t) = n - 1}, x \in S}

ChunkTexts == SeqsUpTo(Chars, MaxTextLen)

ChunkInit ==
    \E text \in ChunkTexts, size \in 0..MaxChunkSize, overlap \in -1..MaxOverlap :
        ck = [pc |-> "entry", text |-> text, chunk_size |-> size, overlap |-> overlap,
              start |-> 0, chunks |-> <<>>, spans |-> <<>>]

\* if chunk_size <= 0: raise ValueError; chunks = []; start = 0
ChunkEnter ==
    /\ ck.pc = "entry"
    /\ ck' = IF ck.chunk_size <= 0
             THEN [ck EXCEPT !.pc = "raised"]
             ELSE [ck EXCEPT !.pc = "loop", !.start = 0, !.chunks = <<>>]
    /\ UNCHANGED <<st, up, fs, inode, run, vstore, uuidCtr>>

\* one iteration of `while start < length`; spans records [start, end) of each chunk
ChunkIterate ==
    /\ ck.pc = "loop"
    /\ ck.start < Len(ck.text)
    /\ Len(ck.chunks) < MaxChunks
    /\ LET end == ChunkEnd(ck.start, ck.chunk_size, Len(ck.text))
           chunks == Append(ck.chunks, ChunkSlice(ck.text, ck.start, end))
           spans == Append(ck.spans, <<ck.start, end>>)
       IN  ck' = IF end = Len(ck.text)
                 THEN [ck EXCEPT !.pc = "returned", !.chunks = chunks, !.spans = spans]
                 ELSE [ck EXCEPT !.chunks = chunks, !.spans = spans,
                                 !.start = ChunkNextStart(end, ck.overlap)]
    /\ UNCHANGED <<st, up, fs, inode, run, vstore, uuidCtr>>

\* the loop condition is false: return chunks
ChunkExit ==
    /\ ck.pc = "loop"
    /\ ~(ck.start < Len(ck.text))
    /\ ck' = [ck EXCEPT !.pc = "returned"]
    /\ UNCHANGED <<st, up, fs, inode, run, vstore, uuidCtr>>

\* chunks returned by a call that terminates (used by process_file)
RECURSIVE ChunkLoop(_, _, _, _, _)
ChunkLoop(text, chunk_size, overlap, start, chunks) ==
    IF ~(start < Len(text)) THEN chunks
    ELSE LET end == ChunkEnd(start, chunk_size, Len(text))
             more == Append(chunks, ChunkSlice(text, start, end))
         IN  IF end = Len(text) THEN more
             ELSE ChunkLoop(text, chunk_size, overlap, ChunkNextStart(end, overlap), more)

ChunkText(text, chunk_size, overlap) == ChunkLoop(text, chunk_size, overlap, 0, <<>>)

ChunkIdle == [pc |-> "unused"]

----------------------------------------------------------------------------
(* services/upload_processor.py: PGVectorStore.store_embeddings *)

\* a number as Python holds it: its type and its value
Num(kind, val) == [kind |-> kind, val |-> val]

\* float(x)
ToFloat(x) == Num("float", x.val)

\* [float(x) for x in embedding]
CoerceEmbedding(embedding) == [j \in 1..Len(embedding) |-> ToFloat(embedding[j])]

\* Python equality of two lists of numbers (1 == 1.0)
PyEqVec(v, w) == /\ Len(v) = Len(w)
                 /\ \A j \in 1..Len(v) : v[j].val = w[j].val

\* vectors the embedding service may return
EmbedResponses == { <<Num("float", 1)>>, <<Num("int", 2)>>,
                    <<Num("float", 1), Num("float", 3)>> }

\* Document(page_content=chunk, metadata={content, embedding, chunk_sequence}); doc.id = uuid4()
MakeDocument(i, chunk, embedding, id) ==
    [id |-> id, page_content |-> chunk,
     metadata |-> [content |-> chunk, embedding |-> CoerceEmbedding(embedding),
                   chunk_sequence |-> i]]

DimensionMismatchNever(embedding, expected) == FALSE

\* if len(embedding) != expected_dimension
DimensionMismatch(embedding, expected) == Len(embedding) # expected

RECURSIVE BuildDocumentsSkip(_, _, _, _, _, _)
BuildDocumentsSkip(chunks, embeddings, i, expected, docs, ctr) ==
    IF i >= Min(Len(chunks), Len(embeddings))
    THEN [raised |-> FALSE, at |-> i, expected |-> expected, got |-> expected,
          docs |-> docs, ctr |-> ctr]
    ELSE LET embedding == embeddings[i + 1]
             exp == IF expected = -1 THEN Len(embedding) ELSE expected
         IN  IF Len(embedding) # exp
             THEN BuildDocumentsSkip(chunks, embeddings, i + 1, exp, docs, ctr)
             ELSE BuildDocumentsSkip(chunks, embeddings, i + 1, exp,
                      Append(docs, MakeDocument(i, chunks[i + 1], embedding, ctr + 1)),
                      ctr + 1)

\* the for loop over enumerate(zip(chunks, embeddings)); i is 0-based, expected = -1 is None
RECURSIVE BuildDocuments(_, _, _, _, _, _)
BuildDocuments(chunks, embeddings, i, expected, docs, ctr) ==
    IF i >= Min(Len(chunks), Len(embeddings))
    THEN [raised |-> FALSE, at |-> i, expected |-> expected, got |-> expected,
          docs |-> docs, ctr |-> ctr]
    ELSE LET embedding == embeddings[i + 1]
             exp == IF expected = -1 THEN Len(embedding) ELSE expected
         IN  IF DimensionMismatch(embedding, exp)
             THEN [raised |-> TRUE, at |-> i, expected |-> exp, got |-> Len(embedding),
                   docs |-> docs, ctr |-> ctr]
             ELSE BuildDocuments(chunks, embeddings, i + 1, exp,
                      Append(docs, MakeDocument(i, chunks[i + 1], embedding, ctr + 1)),
                      ctr + 1)

ShouldWriteAlways(documents) == TRUE

\* if documents: added_ids = self.vector_store.add_documents(documents)
ShouldWrite(documents) == documents # <<>>

\* what a call hands back: None when it falls off its end, nothing when it raises
RetNone == [type |-> "NoneType"]

RetRaised == [type |-> "raised"]

\* the whole call; collab is what add_documents does if it is invoked.
\* The function has no return statement: a call that does not raise returns None.
StoreEmbeddings(chunks, embeddings, ctr, collab) ==
    LET b == BuildDocuments(chunks, embeddings, 0, -1, <<>>, ctr)
    IN  IF b.raised
        THEN [raised |-> TRUE, ret |-> RetRaised,
              err |-> <<"Error storing embeddings", "dimension", b.at, b.expected, b.got>>,
              batches |-> <<>>, printed |-> <<>>, ctr |-> b.ctr]
        ELSE IF ShouldWrite(b.docs)
        THEN IF collab = "fail"
             THEN [raised |-> TRUE, ret |-> RetRaised,
                   err |-> <<"Error storing embeddings", "collaborator">>,
                   batches |-> <<>>, printed |-> << <<"attempt", Len(b.docs)>> >>,
                   ctr |-> b.ctr]
             ELSE [raised |-> FALSE, ret |-> RetNone, err |-> <<>>,
                   batches |-> <<b.docs>>,
                   printed |-> << <<"attempt", Len(b.docs)>>, <<"added", Len(b.docs)>> >>,
                   ctr |-> b.ctr]
        ELSE [raised |-> FALSE, ret |-> RetNone, err |-> <<>>, batches |-> <<>>,
              printed |-> << <<"attempt", 0>>, <<"no documents">> >>, ctr |-> b.ctr]

\* a batch given to add_documents, with the run that gave it (0: a direct call)
Batches(by, batches) == [i \in 1..Len(batches) |-> [by |-> by, docs |-> batches[i]]]

StoreChunks == { <<"a">>, <<"b">>, <<"a", "b">> }

StoreInit ==
    \E n \in 0..MaxBatch :
        \E chunks \in [1..n -> StoreChunks], embeddings \in [1..n -> EmbedResponses] :
            st = [pc |-> "call", chunks |-> chunks, embeddings |-> embeddings,
                  ret |-> [type |-> "pending"], err |-> <<>>, printed |-> <<>>]

\* one direct call of store_embeddings(chunks, embeddings)
StoreCall ==
    /\ st.pc = "call"
    /\ \E collab \in {"ok", "fail"} :
         LET r == StoreEmbeddings(st.chunks, st.embeddings, uuidCtr, collab)
         IN  /\ st' = [st EXCEPT !.pc = IF r.raised THEN "raised" ELSE "returned",
                                 !.ret = r.ret, !.err = r.err, !.printed = r.printed]
             /\ vstore' = vstore \o Batches(0, r.batches)
             /\ uuidCtr' = r.ctr
    /\ UNCHANGED <<ck, up, fs, inode, run>>

StoreIdle == [pc |-> "unused"]

----------------------------------------------------------------------------
(* File names and paths: strings are sequences of one-character strings *)

\* str.lower() on the characters that occur
LowerChar(c) ==
    CASE c = "A" -> "a"
      [] c = "T" -> "t"
      [] c = "X" -> "x"
      [] OTHER -> c

Lower(s) == [i \in 1..Len(s) |-> LowerChar(s[i])]

\* s.rfind(c) + 1: the 1-based index of the last c in s, 0 if there is none
RFind(s, c) ==
    LET hits == {i \in 1..Len(s) : s[i] = c}
    IN  IF hits = {} THEN 0 ELSE CHOOSE i \in hits : \A j \in hits : j <= i

\* value.rsplit(".", 1)[-1]
RSplitLast(s) == SubSeq(s, RFind(s, ".") + 1, Len(s))

\* os.path.splitext(p)[1]: the extension with its dot; a dot that only follows
\* leading dots of the last path component starts no extension
SplitExt(p) ==
    LET sep == RFind(p, "/")
        dot == RFind(p, ".")
    IN  IF dot > sep /\ \E i \in (sep + 1)..(dot - 1) : p[i] # "."
        THEN SubSeq(p, dot, Len(p))
        ELSE <<>>

\* s.lstrip('.')
RECURSIVE LStripDot(_)
LStripDot(s) == IF s # <<>> /\ Head(s) = "." THEN LStripDot(Tail(s)) ELSE s

\* constant/file_constant.py
ALLOWED_EXTENSIONS == { <<"p", "d", "f">>, <<"d", "o", "c", "x">>,
                        <<"d", "o", "c">>, <<"t", "x", "t">> }

MAX_FILE_SIZE == 3

CHUNK_SIZE == 2

UPLOAD_DIR == <<"u">>

\* os.path.join(UPLOAD_DIR, file.filename) for a relative filename
JoinPath(dir, name) == dir \o <<"/">> \o name

\* file names that are uploaded
Filenames == { <<"a", ".", "t", "x", "t">>,
               <<"a", ".", "T", "X", "T">>,
               <<"t", "x", "t">>,
               <<".", "t", "x", "t">>,
               <<"a", ".", "e", "x", "e">>,
               <<"a">> }

\* further names of stored files that process_file is given
OtherNames == { <<"a", ".", "p", "d", "f">>,
                <<"a", ".", "d", "o", "c", "x">>,
                <<"a", ".", "d", "o", "c">> }

Paths == { JoinPath(UPLOAD_DIR, n) : n \in Filenames \cup OtherNames }

\* bytes of uploaded streams: 'a', ' ' (and 0 for a hole, 255 for a non-UTF-8 byte)
StreamFills == {97, 32}

Fill(n, b) == [i \in 1..n |-> b]

Streams == { Fill(n, b) : n \in 0..MaxStreamLen, b \in StreamFills }

----------------------------------------------------------------------------
(* validation/pydentic_model.py: FileMeta.validate_file_extension *)

\* ext = value.rsplit(".", 1)[-1].lower()
ValidatorExt(value) == Lower(RSplitLast(value))

\* the validator returns the value (no ValueError)
FileMetaAccepts(value) == ValidatorExt(value) \in ALLOWED_EXTENSIONS

----------------------------------------------------------------------------
(* rest_api/router_api.py: upload_file *)

Uploads == {1, 2}

UploadIdle == [pc |-> "idle", name |-> <<>>, stream |-> <<>>, path |-> <<>>,
               pos |-> 0, size |-> 0, written |-> 0, ino |-> 0,
               outcome |-> "none", status |-> 0, response |-> <<>>, bg |-> "none"]

\* a run of process_file; chunk_size_arg is <<>> for None and <<n>> for the integer n
RunIdle == [pc |-> "idle", file_path |-> <<>>, chunk_size_arg |-> <<>>, chunk_size |-> 0,
            overlap |-> 0, text |-> <<>>, chunks |-> <<>>, embeddings |-> <<>>,
            calls |-> <<>>, result |-> "none", nchunks |-> 0, err |-> "none"]

\* os.path.exists(file_path)
Exists(path) == fs[path] # 0

KeepFile(path) == fs

\* if os.path.exists(file_path): os.remove(file_path)
RemoveIfExists(path) == [fs EXCEPT ![path] = 0]

\* f.write(chunk) at the position of the handle; a gap left by a truncation reads as zeros
WriteAt(data, pos, chunk) ==
    LET n == Max(Len(data), pos + Len(chunk))
    IN  [i \in 1..n |-> IF i > pos /\ i <= pos + Len(chunk) THEN chunk[i - pos]
                        ELSE IF i <= Len(data) THEN data[i] ELSE 0]

\* await file.read(CHUNK_SIZE): the next at most CHUNK_SIZE bytes of the stream
ReadChunkFullOnly(stream, pos) ==
    IF pos + CHUNK_SIZE > Len(stream) THEN <<>>
    ELSE SubSeq(stream, pos + 1, pos + CHUNK_SIZE)

ReadChunk(stream, pos) == SubSeq(stream, pos + 1, Min(pos + CHUNK_SIZE, Len(stream)))

TooLargeAtLimit(size) == size >= MAX_FILE_SIZE

\* if size > MAX_FILE_SIZE
TooLarge(size) == size > MAX_FILE_SIZE

\* f"{size / (1024 * 1024):.2f} MB", as hundredths of a megabyte
SizeMB(size) == (size * 100 + 524288) \div 1048576

\* ext = os.path.splitext(file.filename)[1].lower().lstrip('.'); if ext in ALLOWED_EXTENSIONS
SchedulerAccepts(name) == LStripDot(Lower(SplitExt(name))) \in ALLOWED_EXTENSIONS

\* process_file(file_path) started in a thread: chunk_size=None, overlap=200 (scaled)
DEFAULT_OVERLAP == 1

RunScheduled(path) == [RunIdle EXCEPT !.pc = "extract", !.file_path = path,
                                      !.overlap = DEFAULT_OVERLAP]

\* lines 48-54: what became of the background run: the extension is not in the
\* allow-list, or create_task started it, or starting it raised and was only printed
Background(name, sched) ==
    IF ~SchedulerAccepts(name) THEN "not_allowed"
    ELSE IF sched = "ok" THEN "started" ELSE "failed"

AfterSchedulingStrict(bg) == IF bg = "failed" THEN "internal_error" ELSE "success"

\* lines 52-61: `except Exception` prints and the handler goes on to its return
AfterScheduling(bg) == "success"

\* lines 19-24: the validator rejects the filename, HTTP 400, nothing else is touched
UploadReject(u) ==
    /\ up[u].pc = "idle"
    /\ \E name \in Filenames, stream \in Streams :
         /\ ~FileMetaAccepts(name)
         /\ up' = [up EXCEPT ![u] = [@ EXCEPT !.pc = "done", !.name = name,
                                     !.stream = stream, !.outcome = "invalid_type",
                                     !.status = 400]]
    /\ UNCHANGED <<ck, st, fs, inode, run, vstore, uuidCtr>>

\* lines 19-33: the filename is valid; open(file_path, "wb") creates the file or
\* truncates the one that is there; the handler then suspends in its first read
UploadOpen(u) ==
    /\ up[u].pc = "idle"
    /\ \E name \in Filenames, stream \in Streams :
         LET path == JoinPath(UPLOAD_DIR, name)
             ino == IF Exists(path) THEN fs[path] ELSE u
         IN  /\ FileMetaAccepts(name)
             /\ up' = [up EXCEPT ![u] = [@ EXCEPT !.pc = "reading", !.name = name,
                                         !.stream = stream, !.path = path, !.ino = ino]]
             /\ fs' = [fs EXCEPT ![path] = ino]
             /\ inode' = [inode EXCEPT ![ino] = <<>>]
    /\ UNCHANGED <<ck, st, run, vstore, uuidCtr>>

\* lines 33-61, from one await to the next: a chunk arrived and is counted, then
\* either the ceiling is exceeded (400, cleanup), or the chunk is written, or the
\* stream has ended: the file is closed, the run is scheduled (or scheduling raises
\* and is only logged), the response returned
UploadRead(u) ==
    /\ up[u].pc = "reading"
    /\ LET chunk == ReadChunk(up[u].stream, up[u].pos)
           size == up[u].size + Len(chunk)
       IN  IF chunk = <<>>
           THEN /\ \E sched \in {"ok", "raises"} :
                     LET bg == Background(up[u].name, sched)
                     IN  /\ up' = [up EXCEPT ![u] = [@ EXCEPT !.pc = "done",
                                      !.outcome = AfterScheduling(bg), !.status = 200,
                                      !.bg = bg,
                                      !.response = [filename |-> up[u].name,
                                                    size |-> SizeMB(up[u].size),
                                                    path |-> up[u].path,
                                                    status |-> "Uploaded successfully"]]]
                         /\ run' = IF bg = "started"
                                   THEN [run EXCEPT ![u] = RunScheduled(up[u].path)]
                                   ELSE run
                /\ UNCHANGED <<fs, inode>>
           ELSE IF TooLarge(size)
           THEN /\ up' = [up EXCEPT ![u] = [@ EXCEPT !.pc = "done", !.outcome = "too_large",
                             !.status = 400, !.pos = @ + Len(chunk), !.size = size]]
                /\ fs' = RemoveIfExists(up[u].path)
                /\ UNCHANGED <<inode, run>>
           ELSE /\ up' = [up EXCEPT ![u] = [@ EXCEPT !.pos = @ + Len(chunk), !.size = size,
                             !.written = @ + Len(chunk)]]
                /\ inode' = [inode EXCEPT ![up[u].ino] = WriteAt(@, up[u].written, chunk)]
                /\ UNCHANGED <<fs, run>>
    /\ UNCHANGED <<ck, st, vstore, uuidCtr>>

\* lines 64-67: file.read or f.write raises an Exception (an OSError): the outer
\* handler removes the file if it is there and answers 500
UploadIOError(u) ==
    /\ up[u].pc = "reading"
    /\ up' = [up EXCEPT ![u] = [@ EXCEPT !.pc = "done", !.outcome = "internal_error",
                                !.status = 500]]
    /\ fs' = RemoveIfExists(up[u].path)
    /\ UNCHANGED <<ck, st, inode, run, vstore, uuidCtr>>

\* the handler's task is cancelled while it awaits file.read: CancelledError is a
\* BaseException, so neither `except HTTPException` nor `except Exception`
\* (lines 41, 62, 64) runs; the with-block closes the file and nothing removes it
UploadCancel(u) ==
    /\ up[u].pc = "reading"
    /\ up' = [up EXCEPT ![u] = [@ EXCEPT !.pc = "done", !.outcome = "cancelled"]]
    /\ UNCHANGED <<ck, st, fs, inode, run, vstore, uuidCtr>>

\* line 32 raises an Exception (open fails with an OSError): file_path is already a
\* local, so the outer handler removes whatever file is at the path and answers 500
UploadOpenError(u) ==
    /\ up[u].pc = "idle"
    /\ \E name \in Filenames, stream \in Streams :
         LET path == JoinPath(UPLOAD_DIR, name)
         IN  /\ FileMetaAccepts(name)
             /\ up' = [up EXCEPT ![u] = [@ EXCEPT !.pc = "done", !.name = name,
                                         !.stream = stream, !.path = path,
                                         !.outcome = "internal_error", !.status = 500]]
             /\ fs' = RemoveIfExists(path)
    /\ UNCHANGED <<ck, st, inode, run, vstore, uuidCtr>>

NextUpload ==
    \E u \in Uploads :
        \/ UploadReject(u)
        \/ UploadOpen(u)
        \/ UploadOpenError(u)
        \/ UploadRead(u)
        \/ UploadIOError(u)
        \/ UploadCancel(u)

----------------------------------------------------------------------------
(* services/upload_processor.py: text extraction and process_file *)

Runs == Uploads

\* a byte as the character it decodes to (ASCII and Latin-1 agree with UTF-8 below 128)
CharOf(b) ==
    CASE b = 97 -> "a"
      [] b = 32 -> " "
      [] b = 0 -> "\\0"
      [] OTHER -> "\\xff"

\* raw.decode(enc) for enc in utf-8, utf-8-sig, latin-1: the first that succeeds
DecodeTxt(raw) == [i \in 1..Len(raw) |-> CharOf(raw[i])]

\* decode("utf-8", errors="ignore"): undecodable bytes are dropped
RECURSIVE DecodeIgnore(_)
DecodeIgnore(raw) ==
    IF raw = <<>> THEN <<>>
    ELSE IF Head(raw) < 128 THEN <<CharOf(Head(raw))>> \o DecodeIgnore(Tail(raw))
    ELSE DecodeIgnore(Tail(raw))

\* "\n".join(parts)
RECURSIVE JoinLines(_)
JoinLines(parts) ==
    IF parts = <<>> THEN <<>>
    ELSE IF Len(parts) = 1 THEN Head(parts)
    ELSE Head(parts) \o <<"\n">> \o JoinLines(Tail(parts))

\* [p.text for p in doc.paragraphs if p.text]
RECURSIVE NonEmpty(_)
NonEmpty(parts) ==
    IF parts = <<>> THEN <<>>
    ELSE IF Head(parts) # <<>> THEN <<Head(parts)>> \o NonEmpty(Tail(parts))
    ELSE NonEmpty(Tail(parts))

\* what the PDF reader finds: per page its text (<<>> when extract_text() gives none)
PdfDocs == { << <<"a">>, <<>>, <<"b">> >>, << <<>> >> }

\* what python-docx finds: the text of each paragraph
DocxDocs == { << <<"a">>, <<>>, <<"b">> >> }

\* what textract.process returns: bytes
DocOutputs == { <<97, 255, 97>> }

\* not text or not text.strip()
IsSpace(c) == c \in {" ", "\n"}

IsBlankEmptyOnly(text) == text = <<>>

IsBlank(text) == \A i \in 1..Len(text) : IsSpace(text[i])

\* the texts the extraction of file_path can give; {} means every attempt raises
ExtractedTexts(file_path) ==
    LET ext == Lower(SplitExt(file_path))
        there == Exists(file_path)
        raw == inode[fs[file_path]]
    IN  IF ~there THEN {}
        ELSE IF ext = <<".", "p", "d", "f">> THEN {JoinLines(pages) : pages \in PdfDocs}
        ELSE IF ext = <<".", "d", "o", "c", "x">>
             THEN {JoinLines(NonEmpty(paras)) : paras \in DocxDocs}
        ELSE IF ext = <<".", "d", "o", "c">> THEN {DecodeIgnore(out) : out \in DocOutputs}
        ELSE IF ext = <<".", "t", "x", "t">> THEN {DecodeTxt(raw)}
        ELSE {DecodeIgnore(raw)}

\* lines 176-197: chunk_size defaults to CHUNK_SIZE, the text is extracted by extension
RunExtract(r) ==
    /\ run[r].pc = "extract"
    /\ \E text \in ExtractedTexts(run[r].file_path) :
         run' = [run EXCEPT ![r] = [@ EXCEPT !.pc = "check", !.text = text,
                     !.chunk_size = IF run[r].chunk_size_arg = <<>> THEN CHUNK_SIZE
                                    ELSE run[r].chunk_size_arg[1]]]
    /\ UNCHANGED <<ck, st, up, fs, inode, vstore, uuidCtr>>

RunExtractErrorSwallow(r) ==
    /\ run[r].pc = "extract"
    /\ run' = [run EXCEPT ![r] = [@ EXCEPT !.pc = "check", !.err = "extraction"]]
    /\ UNCHANGED <<ck, st, up, fs, inode, vstore, uuidCtr>>

\* lines 186-197, 211-213: the extractor raises (missing file, unreadable document,
\* missing library); process_file prints the error and re-raises it
RunExtractError(r) ==
    /\ run[r].pc = "extract"
    /\ run' = [run EXCEPT ![r] = [@ EXCEPT !.pc = "failed", !.err = "extraction"]]
    /\ UNCHANGED <<ck, st, up, fs, inode, vstore, uuidCtr>>

\* lines 199-200
RunCheckEmpty(r) ==
    /\ run[r].pc = "check"
    /\ run' = IF IsBlank(run[r].text)
              THEN [run EXCEPT ![r] = [@ EXCEPT !.pc = "done",
                                       !.result = "no_text_extracted", !.nchunks = 0]]
              ELSE [run EXCEPT ![r] = [@ EXCEPT !.pc = "chunk"]]
    /\ UNCHANGED <<ck, st, up, fs, inode, vstore, uuidCtr>>

\* lines 202-205: _chunk_text raises ValueError for chunk_size <= 0, else gives the chunks
RunChunk(r) ==
    /\ run[r].pc = "chunk"
    /\ run' = IF run[r].chunk_size <= 0
              THEN [run EXCEPT ![r] = [@ EXCEPT !.pc = "failed", !.err = "chunk_size"]]
              ELSE [run EXCEPT ![r] = [@ EXCEPT !.pc = "embed",
                        !.chunks = ChunkText(run[r].text, run[r].chunk_size, run[r].overlap)]]
    /\ UNCHANGED <<ck, st, up, fs, inode, vstore, uuidCtr>>

NextToEmbedLast(r) == Len(run[r].chunks) - Len(run[r].embeddings)

\* the chunk the next embed_content call is made for: `for text in texts`
NextToEmbed(r) == Len(run[r].embeddings) + 1

RunEmbedCallEarlyStore(r) ==
    /\ run[r].pc = "embed"
    /\ \E response \in EmbedResponses :
         LET k == NextToEmbed(r)
         IN  run' = [run EXCEPT ![r] = [@ EXCEPT
                        !.calls = Append(@, <<k - 1, run[r].chunks[k]>>),
                        !.embeddings = Append(@, response),
                        !.pc = "store"]]
    /\ UNCHANGED <<ck, st, up, fs, inode, vstore, uuidCtr>>

\* lines 23-31: one embed_content call returns; after the last one generate_embeddings
\* returns the list
RunEmbedCall(r) ==
    /\ run[r].pc = "embed"
    /\ \E response \in EmbedResponses :
         LET k == NextToEmbed(r)
             embeddings == Append(run[r].embeddings, response)
         IN  run' = [run EXCEPT ![r] = [@ EXCEPT
                        !.calls = Append(@, <<k - 1, run[r].chunks[k]>>),
                        !.embeddings = embeddings,
                        !.pc = IF Len(embeddings) = Len(run[r].chunks) THEN "store"
                               ELSE "embed"]]
    /\ UNCHANGED <<ck, st, up, fs, inode, vstore, uuidCtr>>

RunEmbedErrorPartial(r) ==
    /\ run[r].pc = "embed"
    /\ LET k == NextToEmbed(r)
       IN  run' = [run EXCEPT ![r] = [@ EXCEPT
                      !.calls = Append(@, <<k - 1, run[r].chunks[k]>>),
                      !.pc = "store", !.err = "embedding"]]
    /\ UNCHANGED <<ck, st, up, fs, inode, vstore, uuidCtr>>

\* lines 32-33, 211-213: one embed_content call raises; generate_embeddings raises
\* Exception("Error generating embeddings ..."), the list built so far is dropped
RunEmbedError(r) ==
    /\ run[r].pc = "embed"
    /\ LET k == NextToEmbed(r)
       IN  run' = [run EXCEPT ![r] = [@ EXCEPT
                      !.calls = Append(@, <<k - 1, run[r].chunks[k]>>),
                      !.embeddings = <<>>,
                      !.pc = "failed", !.err = "embedding"]]
    /\ UNCHANGED <<ck, st, up, fs, inode, vstore, uuidCtr>>

\* lines 208-210: PGVectorStore() connects, store_embeddings runs, the summary is returned
RunStore(r) ==
    /\ run[r].pc = "store"
    /\ \E collab \in {"ok", "fail", "no_connection"} :
         IF collab = "no_connection"
         THEN /\ run' = [run EXCEPT ![r] = [@ EXCEPT !.pc = "failed", !.err = "connection"]]
              /\ UNCHANGED <<vstore, uuidCtr>>
         ELSE LET s == StoreEmbeddings(run[r].chunks, run[r].embeddings, uuidCtr, collab)
              IN  /\ run' = IF s.raised
                            THEN [run EXCEPT ![r] = [@ EXCEPT !.pc = "failed",
                                                     !.err = "storage"]]
                            ELSE [run EXCEPT ![r] = [@ EXCEPT !.pc = "done",
                                      !.result = "processed",
                                      !.nchunks = Len(run[r].chunks)]]
                  /\ vstore' = vstore \o Batches(r, s.batches)
                  /\ uuidCtr' = s.ctr
    /\ UNCHANGED <<ck, st, up, fs, inode>>

NextRun ==
    \E r \in Runs :
        \/ RunExtract(r)
        \/ RunExtractError(r)
        \/ RunCheckEmpty(r)
        \/ RunChunk(r)
        \/ RunEmbedCall(r)
        \/ RunEmbedError(r)
        \/ RunStore(r)

----------------------------------------------------------------------------
(* Specifications *)

NoFiles == [p \in Paths |-> 0]

NoData == [i \in Uploads |-> <<>>]

\* _chunk_text alone
InitChunk ==
    /\ ChunkInit
    /\ st = StoreIdle
    /\ up = [u \in Uploads |-> UploadIdle]
    /\ fs = NoFiles
    /\ inode = NoData
    /\ run = [r \in Runs |-> RunIdle]
    /\ vstore = <<>>
    /\ uuidCtr = 0

NextChunk ==
    \/ ChunkEnter
    \/ ChunkIterate
    \/ ChunkExit

SpecChunk == InitChunk /\ [][NextChunk]_vars

\* store_embeddings alone
InitStore ==
    /\ StoreInit
    /\ ck = ChunkIdle
    /\ up = [u \in Uploads |-> UploadIdle]
    /\ fs = NoFiles
    /\ inode = NoData
    /\ run = [r \in Runs |-> RunIdle]
    /\ vstore = <<>>
    /\ uuidCtr = 0

SpecStore == InitStore /\ [][StoreCall]_vars

\* contents of the stored file that process_file is given
PipelineContents == Streams \cup { <<97, 255>>, <<0, 97>> }

\* one run of process_file over a stored file
InitPipeline ==
    /\ ck = ChunkIdle
    /\ st = StoreIdle
    /\ up = [u \in Uploads |-> UploadIdle]
    /\ vstore = <<>>
    /\ uuidCtr = 0
    /\ \E path \in Paths, raw \in PipelineContents, size \in {<<>>, <<0>>, <<3>>} :
         /\ fs = [NoFiles EXCEPT ![path] = 1]
         /\ inode = [NoData EXCEPT ![1] = raw]
         /\ run = [r \in Runs |-> IF r = 1
                                  THEN [RunScheduled(path) EXCEPT !.chunk_size_arg = size]
                                  ELSE RunIdle]

SpecPipeline == InitPipeline /\ [][NextRun]_vars

\* the service: upload handlers on the event loop and the runs they start
Init ==
    /\ ck = ChunkIdle
    /\ st = StoreIdle
    /\ up = [u \in Uploads |-> UploadIdle]
    /\ fs = NoFiles
    /\ inode = NoData
    /\ run = [r \in Runs |-> RunIdle]
    /\ vstore = <<>>
    /\ uuidCtr = 0

Next == NextUpload \/ NextRun

Spec == Init /\ [][Next]_vars

----------------------------------------------------------------------------
(* Properties of upload_file, checked under Spec *)

\* C1: every upload_file call that ends without the success response, whatever
\* ended it, leaves no file at UPLOAD_DIR/<filename> at the moment it ends.
C1_NoFileUnlessSuccess ==
    [][\A u \in Uploads :
         (up[u].pc # "done" /\ up'[u].pc = "done" /\ up'[u].outcome # "success")
             => fs'[JoinPath(UPLOAD_DIR, up'[u].name)] = 0]_vars

\* C2: a handler whose running byte count exceeds MAX_FILE_SIZE stops in that very
\* read, the first one at which the count is above the ceiling: the offending chunk
\* is not written, the call fails with 400 (too large), no file is at the path when
\* it ends, nothing more is read afterwards, and no stream longer than
\* MAX_FILE_SIZE ends in success.
C2_TooLargeAborts ==
    [][\A u \in Uploads :
         /\ (up[u].pc = "reading" /\ up'[u].size > MAX_FILE_SIZE)
                => /\ up[u].size <= MAX_FILE_SIZE
                   /\ up'[u].pc = "done"
                   /\ up'[u].outcome = "too_large"
                   /\ up'[u].status = 400
                   /\ up'[u].written = up[u].written
                   /\ inode' = inode
                   /\ fs'[up[u].path] = 0
         /\ (up[u].pc = "done" => up'[u] = up[u])
         /\ (up'[u].outcome = "success" => Len(up'[u].stream) <= MAX_FILE_SIZE)]_vars

C2_Witness ==
    \E u \in Uploads :
        /\ up[u].outcome = "too_large"
        /\ up[u].written > 0
        /\ up[u].pos < Len(up[u].stream)
        /\ fs[up[u].path] = 0

\* C3: a filename with no extension (no "." after a non-empty base) or with an
\* extension that, lower-cased, is not in ALLOWED_EXTENSIONS is rejected with 400
\* before the stream is read and before the destination file is opened.
C3_InvalidNameRejected ==
    \A u \in Uploads :
        LET name == up[u].name
            dot == RFind(name, ".")
            absent == dot < 2
            ext == Lower(SubSeq(name, dot + 1, Len(name)))
        IN  (up[u].pc # "idle" /\ (absent \/ ext \notin ALLOWED_EXTENSIONS))
                => /\ up[u].outcome = "invalid_type"
                   /\ up[u].status = 400
                   /\ up[u].pos = 0
                   /\ up[u].ino = 0

----------------------------------------------------------------------------
(* Properties of _chunk_text, checked under SpecChunk *)

\* C4: whenever _chunk_text returns, the first chunk followed by every later chunk
\* without its leading `overlap` characters is the text.
C4_RoundTrip ==
    LET RECURSIVE Rebuild(_, _)
        Rebuild(chunks, k) ==
            IF k > Len(chunks) THEN <<>>
            ELSE (IF k = 1 THEN chunks[k]
                  ELSE SubSeq(chunks[k], Max(ck.overlap, 0) + 1, Len(chunks[k])))
                 \o Rebuild(chunks, k + 1)
    IN  ck.pc = "returned" => Rebuild(ck.chunks, 1) = ck.text

\* C5: for a non-empty text, chunk_size > 0 and overlap >= 0, a call that returns
\* gives at least one chunk, and every pair of consecutive chunks that does not end
\* in the final chunk shares exactly `overlap` characters, the later chunk starting
\* at the end of the earlier one minus overlap.
C5_ExactOverlap ==
    (ck.pc \in {"loop", "returned"} /\ ck.text # <<>> /\ ck.chunk_size > 0 /\ ck.overlap >= 0)
        => /\ (ck.pc = "returned" => Len(ck.chunks) >= 1)
           /\ \A k \in 1..(Len(ck.chunks) - 2) :
                LET a == ck.chunks[k]
                    b == ck.chunks[k + 1]
                IN  /\ Len(a) >= ck.overlap
                    /\ Len(b) >= ck.overlap
                    /\ SubSeq(a, Len(a) - ck.overlap + 1, Len(a)) = SubSeq(b, 1, ck.overlap)
                    /\ ck.spans[k + 1][1] = ck.spans[k][2] - ck.overlap

\* C6 as stated: for len(text) <= chunk_size the result is exactly one chunk, the text.
C6_SingleChunk ==
    (ck.pc = "returned" /\ ck.chunk_size > 0 /\ Len(ck.text) <= ck.chunk_size)
        => ck.chunks = <<ck.text>>

\* C6 amended: for a non-empty text with len(text) <= chunk_size and any overlap, the
\* call returns after one iteration with exactly one chunk, the text.
C6_SingleChunkNonEmpty ==
    (ck.chunk_size > 0 /\ ck.text # <<>> /\ Len(ck.text) <= ck.chunk_size)
        => /\ ck.pc # "raised"
           /\ Len(ck.chunks) <= 1
           /\ (Len(ck.chunks) = 1 => ck.pc = "returned")
           /\ (ck.pc = "returned" => ck.chunks = <<ck.text>>)

C6_Witness ==
    /\ ck.pc = "returned"
    /\ ck.text # <<>>
    /\ Len(ck.text) <= ck.chunk_size
    /\ ck.overlap >= ck.chunk_size
    /\ ck.chunks = <<ck.text>>

----------------------------------------------------------------------------
(* Properties of store_embeddings, checked under SpecStore *)

\* C7: a call whose embeddings do not all have the same length raises the
\* dimension error, which names the first index whose length differs from the
\* first embedding's and both lengths, and add_documents gets no batch.
C7_MismatchNoWrite ==
    LET e == st.embeddings
        bad == {i \in 1..Len(e) : Len(e[i]) # Len(e[1])}
    IN  (st.pc # "call" /\ \E i, j \in 1..Len(e) : Len(e[i]) # Len(e[j]))
            => /\ st.pc = "raised"
               /\ vstore = <<>>
               /\ Len(st.err) = 5
               /\ st.err[2] = "dimension"
               /\ st.err[3] + 1 \in bad
               /\ \A i \in bad : st.err[3] + 1 <= i
               /\ st.err[4] = Len(e[1])
               /\ st.err[5] = Len(e[st.err[3] + 1])

C7_Witness ==
    /\ st.pc = "raised"
    /\ Len(st.err) = 5
    /\ st.err[3] >= 1
    /\ Len(st.embeddings[1]) # Len(st.embeddings[2])
    /\ vstore = <<>>

\* C8 as stated: a call that returns hands {stored_count: n} to its caller.
C8_ReturnsStoredCount ==
    st.pc = "returned" => st.ret = [type |-> "dict", stored_count |-> Len(st.chunks)]

\* C8 amended: a call gives add_documents at most one batch: exactly one, holding
\* every record in order, when there are records and nothing fails, and none when
\* there are no records; the count is printed, and the call returns None.
C8_SingleBatchWrite ==
    LET n == Len(st.chunks)
    IN  /\ Len(vstore) <= 1
        /\ (st.pc = "raised" => vstore = <<>>)
        /\ (st.pc = "returned" =>
              /\ st.ret = RetNone
              /\ st.printed[1] = <<"attempt", n>>
              /\ IF n = 0
                 THEN /\ vstore = <<>>
                      /\ st.printed[2] = <<"no documents">>
                 ELSE /\ Len(vstore) = 1
                      /\ Len(vstore[1].docs) = n
                      /\ \A i \in 1..n : vstore[1].docs[i].page_content = st.chunks[i]
                      /\ st.printed[2] = <<"added", n>>)
        /\ (st.pc # "call" /\ n = 0 => st.pc = "returned")

C8_Witness ==
    /\ st.pc = "returned"
    /\ Len(st.chunks) = 2
    /\ Len(vstore) = 1
    /\ Len(vstore[1].docs) = 2
    /\ st.ret = RetNone

----------------------------------------------------------------------------
(* Properties of process_file, checked under SpecPipeline *)

\* the batches a run has given to add_documents
BatchesOf(r) == SelectSeq(vstore, LAMBDA b : b.by = r)

\* C9: in a run the embedding calls are made once per chunk in chunk order, and
\* the i-th record of the batch given to the vector store carries chunk i, the
\* vector returned for chunk i and chunk_sequence i, counted from 0 without gaps.
C9_OrderPreserved ==
    \A r \in Runs :
        /\ Len(run[r].calls) <= Len(run[r].chunks)
        /\ \A k \in 1..Len(run[r].calls) : run[r].calls[k] = <<k - 1, run[r].chunks[k]>>
        /\ (run[r].pc \in {"store", "done"} /\ run[r].result # "no_text_extracted")
               => /\ Len(run[r].calls) = Len(run[r].chunks)
                  /\ Len(run[r].embeddings) = Len(run[r].chunks)
        /\ (run[r].result = "processed" => Len(BatchesOf(r)) = 1)
        /\ \A b \in 1..Len(BatchesOf(r)) :
             LET docs == BatchesOf(r)[b].docs
             IN  /\ Len(docs) = Len(run[r].chunks)
                 /\ \A i \in 1..Len(docs) :
                      /\ docs[i].page_content = run[r].chunks[i]
                      /\ docs[i].metadata.content = run[r].chunks[i]
                      /\ PyEqVec(docs[i].metadata.embedding, run[r].embeddings[i])
                      /\ docs[i].metadata.chunk_sequence = i - 1

C9_Witness ==
    \E r \in Runs :
        /\ run[r].result = "processed"
        /\ Len(run[r].chunks) >= 3
        /\ Len(BatchesOf(r)) = 1
        /\ \E i \in 1..3 : run[r].embeddings[i][1].kind = "int"

\* C10: when the embedding call for chunk k fails, the run fails with the
\* embedding error and stays failed: no embedding list is kept, every chunk up to
\* k was asked for exactly once and none after k, nothing is asked for again, and
\* the run gives the vector store no batch.
C10_EmbeddingAllOrNothing ==
    [][\A r \in Runs :
         /\ run'[r].err = "embedding"
                => /\ run'[r].pc = "failed"
                   /\ run'[r].result = "none"
                   /\ run'[r].embeddings = <<>>
                   /\ Len(run'[r].calls) <= Len(run'[r].chunks)
                   /\ \A k \in 1..Len(run'[r].calls) :
                        run'[r].calls[k] = <<k - 1, run'[r].chunks[k]>>
                   /\ SelectSeq(vstore', LAMBDA b : b.by = r) = <<>>
         /\ run[r].pc = "failed" => run'[r] = run[r]]_vars

C10_Witness ==
    \E r \in Runs :
        /\ run[r].err = "embedding"
        /\ run[r].pc = "failed"
        /\ Len(run[r].calls) = 2
        /\ Len(run[r].chunks) >= 3
        /\ BatchesOf(r) = <<>>

\* C11: when the extracted text is empty or only whitespace, the run ends with
\* {status: no_text_extracted, chunks: 0}: it never reaches the chunker, makes no
\* embedding call and gives the vector store no batch.
C11_BlankTextShortCircuits ==
    [][\A r \in Runs :
         LET blank == \A i \in 1..Len(run'[r].text) : run'[r].text[i] \in {" ", "\n"}
         IN  (run'[r].pc \notin {"idle", "extract"} /\ run'[r].err # "extraction" /\ blank)
                 => /\ run'[r].pc \in {"check", "done"}
                    /\ (run[r].pc = "check" /\ run'[r] # run[r] => run'[r].pc = "done")
                    /\ (run'[r].pc = "done" => /\ run'[r].result = "no_text_extracted"
                                              /\ run'[r].nchunks = 0)
                    /\ run'[r].chunks = <<>>
                    /\ run'[r].calls = <<>>
                    /\ run'[r].embeddings = <<>>
                    /\ SelectSeq(vstore', LAMBDA b : b.by = r) = <<>>]_vars

C11_Witness ==
    \E r \in Runs :
        /\ run[r].pc = "done"
        /\ run[r].result = "no_text_extracted"
        /\ Len(run[r].text) >= 2
        /\ run[r].calls = <<>>
        /\ vstore = <<>>

\* C12: a run moves through extract, check, chunk, embed, store, done in that
\* order, never back and never into a stage it has left; embedding calls are made
\* only once the chunk list is complete, which then no longer changes, and a batch
\* reaches the vector store only when every chunk has its embedding.
C12_LinearStages ==
    [][\A r \in Runs :
         LET from == run[r].pc
             to == run'[r].pc
         IN  /\ \/ run'[r] = run[r]
                \/ <<from, to>> \in { <<"idle", "extract">>, <<"extract", "check">>,
                                      <<"check", "chunk">>, <<"check", "done">>,
                                      <<"chunk", "embed">>, <<"embed", "embed">>,
                                      <<"embed", "store">>, <<"store", "done">> }
                \/ (to = "failed" /\ from \in {"extract", "chunk", "embed", "store"})
             /\ (run'[r].calls # <<>> =>
                    /\ to \in {"embed", "store", "done", "failed"}
                    /\ run'[r].chunks
                         = ChunkText(run'[r].text, run'[r].chunk_size, run'[r].overlap))
             /\ (from \in {"embed", "store"} => run'[r].chunks = run[r].chunks)
             /\ (to = "store" => Len(run'[r].embeddings) = Len(run'[r].chunks))
             /\ (SelectSeq(vstore', LAMBDA b : b.by = r) # <<>> =>
                    /\ to = "done"
                    /\ Len(run'[r].embeddings) = Len(run'[r].chunks)
                    /\ Len(run'[r].calls) = Len(run'[r].chunks))]_vars

C12_Witness ==
    \E r \in Runs :
        /\ run[r].pc = "done"
        /\ run[r].err = "none"
        /\ Len(run[r].calls) >= 2
        /\ Len(run[r].calls) = Len(run[r].chunks)
        /\ BatchesOf(r) # <<>>

\* C13: a run whose stage fails stops there with the error handed to its caller:
\* it reports no result, takes no further step, has executed nothing of a later
\* stage, and no step of a run changes or removes the stored file.
C13_FailureAborts ==
    [][/\ fs' = fs
       /\ inode' = inode
       /\ \A r \in Runs :
            /\ (run'[r].err # "none") = (run'[r].pc = "failed")
            /\ (run[r].pc = "failed" => run'[r] = run[r])
            /\ (run'[r].pc = "failed" =>
                  /\ run'[r].result = "none"
                  /\ SelectSeq(vstore', LAMBDA b : b.by = r) = <<>>
                  /\ (run'[r].err = "extraction" => run'[r].chunks = <<>>)
                  /\ (run'[r].err \in {"extraction", "chunk_size"} => run'[r].calls = <<>>)
                  /\ (run'[r].err \in {"extraction", "chunk_size", "embedding"}
                          => run[r].pc # "store"))]_vars

C13_Witness ==
    \E r \in Runs :
        /\ run[r].pc = "failed"
        /\ run[r].err = "storage"
        /\ Len(run[r].embeddings) >= 2
        /\ Len(run[r].embeddings[1]) # Len(run[r].embeddings[2])
        /\ Exists(run[r].file_path)
        /\ vstore = <<>>

\* C14: a run reports {status: processed, chunks: n} only when its one batch has
\* been taken by the vector store, and n is the number of chunks the chunker
\* produced and the number of records in that batch.
C14_ProcessedCount ==
    \A r \in Runs :
        run[r].result = "processed"
            => /\ run[r].pc = "done"
               /\ Len(BatchesOf(r)) = 1
               /\ run[r].nchunks = Len(ChunkText(run[r].text, run[r].chunk_size,
                                                 run[r].overlap))
               /\ run[r].nchunks = Len(run[r].chunks)
               /\ run[r].nchunks = Len(BatchesOf(r)[1].docs)
               /\ run[r].nchunks >= 1

C14_Witness ==
    \E r \in Runs :
        /\ run[r].result = "processed"
        /\ run[r].nchunks = 3
        /\ Len(BatchesOf(r)[1].docs) = 3

----------------------------------------------------------------------------
(* Properties of upload_file together with the runs it starts, checked under Spec *)

\* C15: every upload that ends in success has its run scheduled for the stored
\* path (unless starting the task itself raised): a filename the validator accepts
\* is also one the scheduling check accepts.
C15_SuccessSchedulesRun ==
    \A u \in Uploads :
        (up[u].outcome = "success" /\ up[u].bg # "failed")
            => /\ SchedulerAccepts(up[u].name)
               /\ up[u].bg = "started"
               /\ run[u].pc # "idle"
               /\ run[u].file_path = up[u].path

\* C16: the handler answers without waiting for the run: at the moment of the
\* success response the run has at most been scheduled, the response is made of
\* the filename, the size and the path alone and never changes afterwards,
\* whatever the run does, and a failure to start the run still gives success.
C16_ResponseIndependentOfRun ==
    [][\A u \in Uploads :
         /\ (up[u].pc # "done" /\ up'[u].pc = "done" /\ up'[u].bg # "none")
                => /\ up'[u].outcome = "success"
                   /\ up'[u].status = 200
                   /\ up'[u].response = [filename |-> up[u].name,
                                         size |-> SizeMB(Len(up[u].stream)),
                                         path |-> up[u].path,
                                         status |-> "Uploaded successfully"]
                   /\ run'[u].pc = IF up'[u].bg = "started" THEN "extract" ELSE "idle"
         /\ (up[u].pc = "done" => up'[u] = up[u])
         /\ (up'[u].outcome = "success" => up'[u].bg # "none")]_vars

C16_Witness ==
    \E u \in Uploads :
        /\ up[u].outcome = "success"
        /\ up[u].response # <<>>
        /\ run[u].pc = "failed"
        /\ \E v \in Uploads : up[v].outcome = "success" /\ up[v].bg = "failed"

\* C17: when two uploads of the same filename both end in success, the file at
\* the shared path holds the complete stream of one of them.
C17_LastWriterWins ==
    \A u, v \in Uploads :
        (u # v /\ up[u].outcome = "success" /\ up[v].outcome = "success"
             /\ up[u].path = up[v].path)
            => /\ Exists(up[u].path)
               /\ inode[fs[up[u].path]] \in {up[u].stream, up[v].stream}

\* C18: once an upload has returned success and its file is at its path, no
\* later step of any upload or run removes the file.
C18_StoredFileStays ==
    [][\A u \in Uploads :
         (up[u].outcome = "success" /\ Exists(up[u].path)) => fs'[up[u].path] # 0]_vars

\* C19: an upload never has more than MAX_FILE_SIZE bytes written, no file grows
\* beyond MAX_FILE_SIZE, a stream of exactly MAX_FILE_SIZE bytes is never refused
\* as too large, and on success the counted and reported size is that of the stream.
C19_CeilingRespected ==
    /\ \A i \in Uploads : Len(inode[i]) <= MAX_FILE_SIZE
    /\ \A u \in Uploads :
         /\ up[u].written <= MAX_FILE_SIZE
         /\ up[u].written <= up[u].size
         /\ (Len(up[u].stream) = MAX_FILE_SIZE => up[u].outcome # "too_large")
         /\ (up[u].outcome = "success" =>
                /\ up[u].size = Len(up[u].stream)
                /\ up[u].written = Len(up[u].stream)
                /\ up[u].response.size = SizeMB(Len(up[u].stream)))

C19_Witness ==
    \E u \in Uploads :
        /\ up[u].outcome = "success"
        /\ Len(up[u].stream) = MAX_FILE_SIZE
        /\ up[u].written = MAX_FILE_SIZE
        /\ Exists(up[u].path)
        /\ Len(inode[fs[up[u].path]]) = MAX_FILE_SIZE

----------------------------------------------------------------------------
(* Termination of _chunk_text, checked under SpecChunk *)

\* C20: for chunk_size > 0 and overlap >= 0 every iteration that does not end the
\* loop moves start strictly forward.
C20_StartIncreases ==
    [][(ck.pc = "loop" /\ ck'.pc = "loop" /\ ck.chunk_size > 0 /\ ck.overlap >= 0)
           => ck'.start > ck.start]_vars

----------------------------------------------------------------------------
(* Ordering of intake and scheduling, checked under Spec *)

\* C21: the run of an upload is scheduled only on the step in which that upload's
\* intake ends successfully with its whole stream written, and an upload that is
\* still reading or that failed (invalid type, too large, I/O error, cancelled)
\* never has a run.
C21_RunOnlyAfterIntake ==
    /\ [](\A u \in Uploads :
             run[u].pc # "idle" =>
                 /\ up[u].pc = "done"
                 /\ up[u].outcome = "success"
                 /\ up[u].bg = "started"
                 /\ up[u].written = Len(up[u].stream)
                 /\ run[u].file_path = up[u].path)
    /\ [][\A u \in Uploads :
             (run[u].pc = "idle" /\ run'[u].pc # "idle") =>
                 /\ up[u].pc = "reading"
                 /\ up[u].written = Len(up[u].stream)
                 /\ up'[u].pc = "done"
                 /\ up'[u].outcome = "success"]_vars

\* a run was scheduled for an upload whose stream took more than one read, while
\* the other upload failed and has no run
C21_Witness ==
    \E u, v \in Uploads :
        /\ run[u].pc # "idle"
        /\ up[u].outcome = "success"
        /\ Len(up[u].stream) > CHUNK_SIZE
        /\ up[u].written = Len(up[u].stream)
        /\ up[v].pc = "done"
        /\ up[v].outcome \in {"too_large", "internal_error", "invalid_type", "cancelled"}
        /\ run[v].pc = "idle"

====
